---- MODULE Spec2Model ----
(***************************************************************************)
(* State-machine model of src/logic.py (GameLogic, Inventory, DeleteZone). *)
(*                                                                         *)
(* Numbers.  The program computes with floats.  Lengths, positions and     *)
(* velocities are modelled as integers counted in half units (the float    *)
(* 1.0 is One = 2), so that every "x / 2" and "x * 0.5" of the layout code *)
(* is exact for the configurations drawn in Init.  Colour channels, hue,   *)
(* saturation and value are integers counted in 1/CU (the float 1.0 is     *)
(* CU).  Divisions are floor divisions on that grid.                       *)
(***************************************************************************)
EXTENDS Integers, Sequences, FiniteSets, TLC

VARIABLES
    cfg,            \* constructor arguments after the clamps of __init__
    balls,          \* GameLogic._balls : sequence of Ball records
    inventory,      \* GameLogic.inventory._balls : sequence of Ball records
    idCounter,      \* next value of GameLogic._id_counter
    destroyed,      \* history: ids removed by the delete zone
    captureOrder,   \* history: ids of the stored balls, oldest capture first
    capturedAs,     \* history: id, radius and colour of each stored ball at its capture
    view,           \* ids of the Ball objects in the tuple last returned by balls()
    calls,          \* history: number of calls made so far
    op              \* history: the last call, its arguments and its result

vars == <<cfg, balls, inventory, idCounter, destroyed, captureOrder, capturedAs,
          view, calls, op>>

-----------------------------------------------------------------------------
(* Bounds of the exploration *)

MaxId == 3          \* at most this many balls are ever spawned
MaxCalls == 5       \* at most this many calls of the public operations

-----------------------------------------------------------------------------
(* Number representation *)

One == 2            \* the float 1.0 as a length
CU == 6000          \* the float 1.0 as a colour / hsv component

None == -1          \* Python None as a returned ball
NoZone == <<>>      \* delete_zone = None
NoVel == <<>>       \* velocity = None

Max2(a, b) == IF a >= b THEN a ELSE b
Min2(a, b) == IF a <= b THEN a ELSE b
Abs(a) == IF a >= 0 THEN a ELSE -a

Vec2(x, y) == <<x, y>>
Vec2Zero == Vec2(0, 0)

\* squared Vec2.length of (a - b)
LengthSq(a, b) == (a[1] - b[1]) * (a[1] - b[1]) + (a[2] - b[2]) * (a[2] - b[2])

\* Ball(id, position, velocity, radius, color, stored_velocity)
Ball(id, position, velocity, radius, color) ==
    [id |-> id, pos |-> position, vel |-> velocity, radius |-> radius,
     color |-> color, sv |-> Vec2Zero]

-----------------------------------------------------------------------------
(* Sequence helpers *)

Ids(s) == {s[i].id : i \in 1..Len(s)}

\* index of the first element of s with the given id, 0 when absent
RECURSIVE IndexFrom(_, _, _)
IndexFrom(s, id, i) ==
    IF i > Len(s) THEN 0
    ELSE IF s[i].id = id THEN i
    ELSE IndexFrom(s, id, i + 1)

IndexOf(s, id) == IndexFrom(s, id, 1)

\* a broken list.remove that leaves the list as it is
ListRemoveNothing(s, id) == s

\* a broken list.remove that drops the head of the list whatever the ball
ListRemoveHead(s, id) == IF Len(s) = 0 THEN s ELSE Tail(s)

\* list.remove(ball): drop the first element equal to the ball
ListRemove(s, id) ==
    LET k == IndexOf(s, id)
    IN IF k = 0 THEN s
       ELSE [i \in 1..(Len(s) - 1) |-> IF i < k THEN s[i] ELSE s[i + 1]]

\* a broken Inventory.pop_last that takes the oldest stored ball
pop_first(s) == [ball |-> s[1], rest |-> SubSeq(s, 2, Len(s))]

\* Inventory.pop_last on a non-empty list: the ball returned and the list left
pop_last(s) == [ball |-> s[Len(s)], rest |-> SubSeq(s, 1, Len(s) - 1)]

-----------------------------------------------------------------------------
(* colorsys, as called by _mix_colors; components are integers in 0..CU *)

Red == <<CU, 0, 0>>
Blue == <<0, 0, CU>>
NaiveAverage == <<CU \div 2, 0, CU \div 2>>

Max3(a, b, c) == Max2(a, Max2(b, c))
Min3(a, b, c) == Min2(a, Min2(b, c))

rgb_to_hsv(c) ==
    LET r == c[1]
        g == c[2]
        b == c[3]
        maxc == Max3(r, g, b)
        minc == Min3(r, g, b)
        rangec == maxc - minc
    IN IF minc = maxc THEN <<0, 0, maxc>>
       ELSE LET s == (rangec * CU) \div maxc
                rc == ((maxc - r) * CU) \div rangec
                gc == ((maxc - g) * CU) \div rangec
                bc == ((maxc - b) * CU) \div rangec
                h == IF r = maxc THEN bc - gc
                     ELSE IF g = maxc THEN 2 * CU + rc - bc
                     ELSE 4 * CU + gc - rc
            IN <<(h \div 6) % CU, s, maxc>>

hsv_to_rgb(hsv) ==
    LET h == hsv[1]
        s == hsv[2]
        v == hsv[3]
    IN IF s = 0 THEN <<v, v, v>>
       ELSE LET i == (h * 6) \div CU
                f == h * 6 - i * CU
                p == (v * (CU - s)) \div CU
                q == (v * (CU - ((s * f) \div CU))) \div CU
                t == (v * (CU - ((s * (CU - f)) \div CU))) \div CU
                k == i % 6
            IN CASE k = 0 -> <<v, t, p>>
                 [] k = 1 -> <<q, v, p>>
                 [] k = 2 -> <<p, v, t>>
                 [] k = 3 -> <<p, q, v>>
                 [] k = 4 -> <<t, p, v>>
                 [] k = 5 -> <<v, p, q>>

\* a broken blend: the channel-wise mean of the two colours
_mix_colors_naive(color_a, color_b) ==
    <<(color_a[1] + color_b[1]) \div 2, (color_a[2] + color_b[2]) \div 2,
      (color_a[3] + color_b[3]) \div 2>>

_mix_colors(color_a, color_b) ==
    LET a == rgb_to_hsv(color_a)
        b == rgb_to_hsv(color_b)
        hue_diff == ((b[1] - a[1] + CU \div 2) % CU) - CU \div 2
        mixed_h == (a[1] + hue_diff \div 2) % CU
        mixed_s == Min2(CU, (a[2] + b[2]) \div 2 + (2 * Abs(a[2] - b[2])) \div 10)
        mixed_v == Min2(CU, (Max2(a[3], b[3]) * 9) \div 10 + ((a[3] + b[3]) \div 2) \div 10)
        washed == mixed_s < (15 * CU) \div 100 /\ mixed_v > (85 * CU) \div 100
    IN IF washed
       THEN hsv_to_rgb(<<mixed_h, (25 * CU) \div 100,
                         Max2((70 * CU) \div 100, mixed_v - (10 * CU) \div 100)>>)
       ELSE hsv_to_rgb(<<mixed_h, mixed_s, mixed_v>>)

-----------------------------------------------------------------------------
(* Geometry of the playfield and of the capture strip *)

_play_area_height(c) == Max2(One, c.height - c.strip)

\* a broken DeleteZone.contains whose bounds are exclusive
contains_exclusive(zone, position) ==
    /\ zone.min_x < position[1] /\ position[1] < zone.max_x
    /\ zone.min_y < position[2] /\ position[2] < zone.max_y

\* DeleteZone.contains
contains(zone, position) ==
    /\ zone.min_x <= position[1] /\ position[1] <= zone.max_x
    /\ zone.min_y <= position[2] /\ position[2] <= zone.max_y

\* "self.delete_zone and self.delete_zone.contains(ball.position)"
InDeleteZone(c, position) == c.zone # NoZone /\ contains(c.zone, position)

\* a broken _inventory_slot_position that puts every slot in column 0
_inventory_slot_position_column0(c, slot_index) ==
    LET safe_width == Max2(One, c.width)
        usable_width == Max2(One, safe_width - 2 * Min2(c.padding, safe_width \div 2))
        columns == Max2(1, usable_width \div c.slot)
        slot_width == usable_width \div columns
        gutter_offset == (safe_width - usable_width) \div 2
        row == slot_index \div columns
        x == gutter_offset + slot_width \div 2
        slot_height == Min2(c.slot, Max2(One, c.strip))
        strip_top == Max2(0, c.height - c.strip)
        max_offset == Max2(0, c.strip - slot_height \div 2)
        row_offset == (slot_height * (2 * row + 1)) \div 2
        y0 == strip_top + Min2(row_offset,
                               IF max_offset > 0 THEN max_offset ELSE slot_height \div 2)
        y == Min2(c.height - slot_height \div 2, y0)
        clamped_x == Min2(safe_width - slot_width \div 2, Max2(slot_width \div 2, x))
    IN Vec2(clamped_x, y)

\* slot_index counts from 0, as enumerate does
_inventory_slot_position(c, slot_index) ==
    LET safe_width == Max2(One, c.width)
        usable_width == Max2(One, safe_width - 2 * Min2(c.padding, safe_width \div 2))
        columns == Max2(1, usable_width \div c.slot)
        slot_width == usable_width \div columns
        gutter_offset == (safe_width - usable_width) \div 2
        col == slot_index % columns
        row == slot_index \div columns
        x == gutter_offset + (slot_width * (2 * col + 1)) \div 2
        slot_height == Min2(c.slot, Max2(One, c.strip))
        strip_top == Max2(0, c.height - c.strip)
        max_offset == Max2(0, c.strip - slot_height \div 2)
        row_offset == (slot_height * (2 * row + 1)) \div 2
        y0 == strip_top + Min2(row_offset,
                               IF max_offset > 0 THEN max_offset ELSE slot_height \div 2)
        y == Min2(c.height - slot_height \div 2, y0)
        clamped_x == Min2(safe_width - slot_width \div 2, Max2(slot_width \div 2, x))
    IN Vec2(clamped_x, y)

\* a broken placement that also resizes the ball to fit its slot
_place_ball_in_inventory_fit(c, ball, slot_index) ==
    [ball EXCEPT !.pos = _inventory_slot_position(c, slot_index),
                 !.vel = Vec2Zero,
                 !.radius = c.slot \div 2]

\* a broken placement that eases the ball halfway towards its slot
_place_ball_in_inventory_eased(c, ball, slot_index) ==
    LET slot == _inventory_slot_position(c, slot_index)
    IN [ball EXCEPT !.pos = Vec2((ball.pos[1] + slot[1]) \div 2,
                                 (ball.pos[2] + slot[2]) \div 2),
                    !.vel = Vec2Zero]

_place_ball_in_inventory(c, ball, slot_index) ==
    [ball EXCEPT !.pos = _inventory_slot_position(c, slot_index), !.vel = Vec2Zero]

\* a broken layout pass that places nothing
_refresh_inventory_layout_skip(c, inv) == inv

_refresh_inventory_layout(c, inv) ==
    IF c.strip <= 0 THEN inv
    ELSE [i \in 1..Len(inv) |-> _place_ball_in_inventory(c, inv[i], i - 1)]

-----------------------------------------------------------------------------
(* Movement, contact and capture helpers *)

\* C's fmod: the remainder takes the sign of the dividend
Fmod(a, m) == IF a >= 0 THEN a % m ELSE -((-a) % m)

\* a broken _move_ball that wraps with the truncated remainder
_move_ball_fmod(c, ball, dt) ==
    [ball EXCEPT
        !.pos = Vec2(Fmod(ball.pos[1] + ball.vel[1] * dt, c.width),
                     Fmod(ball.pos[2] + ball.vel[2] * dt, _play_area_height(c))),
        !.sv = ball.vel]

_move_ball(c, ball, dt) ==
    [ball EXCEPT
        !.pos = Vec2((ball.pos[1] + ball.vel[1] * dt) % c.width,
                     (ball.pos[2] + ball.vel[2] * dt) % _play_area_height(c)),
        !.sv = ball.vel]

\* distance <= radius sum, compared on the squares
_are_touching(ball_a, ball_b) ==
    /\ ball_a.radius + ball_b.radius >= 0
    /\ LengthSq(ball_a.pos, ball_b.pos)
         <= (ball_a.radius + ball_b.radius) * (ball_a.radius + ball_b.radius)

\* the pair loop of _apply_color_mixing, from pair (i, j) on
RECURSIVE MixFrom(_, _, _)
MixFrom(bs, i, j) ==
    IF i > Len(bs) THEN bs
    ELSE IF j > Len(bs) THEN MixFrom(bs, i + 1, i + 2)
    ELSE IF _are_touching(bs[i], bs[j])
         THEN LET mixed == _mix_colors(bs[i].color, bs[j].color)
              IN MixFrom([bs EXCEPT ![i].color = mixed, ![j].color = mixed], i, j + 1)
         ELSE MixFrom(bs, i, j + 1)

_apply_color_mixing(bs) == MixFrom(bs, 1, 2)

\* (ball.position - pointer).length() - ball.radius <= influence_radius
WithinInfluence(ball, pointer, influence_radius) ==
    /\ influence_radius + ball.radius >= 0
    /\ LengthSq(ball.pos, pointer)
         <= (influence_radius + ball.radius) * (influence_radius + ball.radius)

\* sqrt(dA) - rA < sqrt(dB) - rB, decided exactly on integers
SurfaceLess(dA, rA, dB, rB) ==
    LET c == rA - rB
        L == dA - dB - c * c
        M == dB - dA - c * c
    IN IF c >= 0
       THEN L < 0 \/ L * L < 4 * c * c * dB
       ELSE M > 0 /\ 4 * c * c * dA < M * M

\* the sort key of one ball is smaller than that of another
CloserThan(ball_a, ball_b, pointer) ==
    SurfaceLess(LengthSq(ball_a.pos, pointer), ball_a.radius,
                LengthSq(ball_b.pos, pointer), ball_b.radius)

\* a broken _find_ball that forgets the influence_radius filter
_find_ball_unfiltered(bs, pointer, influence_radius) ==
    LET candidates == 1..Len(bs)
        best == {i \in candidates :
                    \A j \in candidates : ~CloserThan(bs[j], bs[i], pointer)}
    IN IF candidates = {} THEN 0
       ELSE CHOOSE i \in best : \A j \in best : i <= j

\* a broken _find_ball whose sort puts the last of several equal keys first
_find_ball_last_tie(bs, pointer, influence_radius) ==
    LET candidates == {i \in 1..Len(bs) : WithinInfluence(bs[i], pointer, influence_radius)}
        best == {i \in candidates :
                    \A j \in candidates : ~CloserThan(bs[j], bs[i], pointer)}
    IN IF candidates = {} THEN 0
       ELSE CHOOSE i \in best : \A j \in best : i >= j

\* index in bs of the ball _find_ball returns, 0 for None; the sort is stable
_find_ball(bs, pointer, influence_radius) ==
    LET candidates == {i \in 1..Len(bs) : WithinInfluence(bs[i], pointer, influence_radius)}
        best == {i \in candidates :
                    \A j \in candidates : ~CloserThan(bs[j], bs[i], pointer)}
    IN IF candidates = {} THEN 0
       ELSE CHOOSE i \in best : \A j \in best : i <= j

-----------------------------------------------------------------------------
(* Spawning.  A game state is [balls, inv, idc, destroyed]. *)

\* a broken spawn_ball that does not advance the id counter
spawn_ball_same_id(st, position, velocity, radius, color) ==
    [st EXCEPT
        !.balls = Append(st.balls,
                         [Ball(st.idc, position, velocity, radius, color)
                             EXCEPT !.sv = velocity])]

spawn_ball(st, position, velocity, radius, color) ==
    [st EXCEPT
        !.balls = Append(st.balls,
                         [Ball(st.idc, position, velocity, radius, color)
                             EXCEPT !.sv = velocity]),
        !.idc = st.idc + 1]

\* a broken _spawn_replacement that ignores refill_on_remove
_spawn_replacement_always(c, st, gen) ==
    LET spawn_spec == gen[st.idc]
    IN spawn_ball(st, spawn_spec.pos, spawn_spec.vel, spawn_spec.radius, spawn_spec.color)

\* a broken _spawn_replacement that never spawns
_spawn_replacement_never(c, st, gen) == st

\* gen[i] is the spec the refill generator returns for the ball that gets id i
_spawn_replacement(c, st, gen) ==
    IF ~c.refill THEN st
    ELSE LET spawn_spec == gen[st.idc]
         IN spawn_ball(st, spawn_spec.pos, spawn_spec.vel, spawn_spec.radius,
                       spawn_spec.color)

\* a broken resolution that reads the current velocity of the stored ball
ChosenVelocity_current(velocity, ball, random_velocity) ==
    IF velocity # NoVel THEN velocity
    ELSE IF ball.vel # Vec2Zero THEN ball.vel
    ELSE random_velocity

\* the expression chosen_velocity of spit_ball; random_velocity is the value
\* _random_velocity would return
ChosenVelocity(velocity, ball, random_velocity) ==
    IF velocity # NoVel THEN velocity
    ELSE IF ball.sv # Vec2Zero THEN ball.sv
    ELSE random_velocity

\* a broken loop that walks the live list by index instead of a snapshot
RECURSIVE UpdateLoopLive(_, _, _, _, _, _)
UpdateLoopLive(c, snapshot, k, st, dt, gen) ==
    IF k > Len(st.balls) THEN st
    ELSE LET id == st.balls[k].id
             moved == _move_ball(c, st.balls[k], dt)
         IN IF InDeleteZone(c, moved.pos)
            THEN UpdateLoopLive(c, snapshot, k + 1,
                                _spawn_replacement(c,
                                    [st EXCEPT !.balls = ListRemove(st.balls, id),
                                               !.destroyed = st.destroyed \cup {id}],
                                    gen),
                                dt, gen)
            ELSE UpdateLoopLive(c, snapshot, k + 1,
                                [st EXCEPT !.balls[k] = moved], dt, gen)

\* the loop of update over list(self._balls), from its k-th element on
RECURSIVE UpdateLoop(_, _, _, _, _, _)
UpdateLoop(c, snapshot, k, st, dt, gen) ==
    IF k > Len(snapshot) THEN st
    ELSE LET id == snapshot[k].id
             at == IndexOf(st.balls, id)
             moved == _move_ball(c, st.balls[at], dt)
         IN IF InDeleteZone(c, moved.pos)
            THEN UpdateLoop(c, snapshot, k + 1,
                            _spawn_replacement(c,
                                [st EXCEPT !.balls = ListRemove(st.balls, id),
                                           !.destroyed = st.destroyed \cup {id}],
                                gen),
                            dt, gen)
            ELSE UpdateLoop(c, snapshot, k + 1,
                            [st EXCEPT !.balls[at] = moved], dt, gen)

\* a broken update that blends the stored balls along with the active ones
update_mixing_all(c, st, dt, gen) ==
    LET looped == UpdateLoop(c, st.balls, 1, st, dt, gen)
        everything == _apply_color_mixing(looped.balls \o looped.inv)
    IN [looped EXCEPT
           !.balls = SubSeq(everything, 1, Len(looped.balls)),
           !.inv = SubSeq(everything, Len(looped.balls) + 1, Len(everything))]

\* update(dt) on a game state
update(c, st, dt, gen) ==
    LET looped == UpdateLoop(c, st.balls, 1, st, dt, gen)
    IN [looped EXCEPT !.balls = _apply_color_mixing(looped.balls)]

\* how many balls of bs the delete zone removes in one update(dt)
Removals(c, bs, dt) ==
    Cardinality({i \in 1..Len(bs) : InDeleteZone(c, _move_ball(c, bs[i], dt).pos)})

-----------------------------------------------------------------------------
(* Inputs of the exploration (half units; colours in 1/CU) *)

Widths == {8}
Heights == {8}
StripHeights == {0, 4}          \* inventory_strip_height
SlotSizes == {4}                \* inventory_slot_size
Paddings == {0, 2}              \* inventory_padding

\* a delete zone in the top right corner, reaching the right edge x = width
CornerZone == [min_x |-> 6, min_y |-> 0, max_x |-> 8, max_y |-> 2]
Zones == {NoZone, CornerZone}

BallSpec(position, velocity, radius, color) ==
    [pos |-> position, vel |-> velocity, radius |-> radius, color |-> color]

\* arguments of spawn_ball
SpawnSpecs ==
    { BallSpec(Vec2(6, 2), Vec2Zero, 1, Red),
      BallSpec(Vec2(8, 1), Vec2Zero, 1, Blue),
      BallSpec(Vec2(7, 2), Vec2(10, -3), 2, Blue) }

\* what the refill generator (injected or _default_spawn_spec) may return
RefillSpecs ==
    { BallSpec(Vec2(2, 2), Vec2(1, 0), 1, Red),
      BallSpec(Vec2(3, 3), Vec2(0, -2), 2, Blue) }

Dts == {-1, 0, 1}                       \* dt of update
Pointers == {Vec2(7, 1)}                \* pointer of suck_ball
InfluenceRadii == {0, 5}                \* influence_radius of suck_ball
SpitPositions == {Vec2(2, 2)}           \* position of spit_ball
SpitVelocities == {NoVel, Vec2(-3, 0)}  \* velocity of spit_ball
RandomVelocities == {Vec2(2, 1), Vec2(-1, 0)}   \* results of _random_velocity

-----------------------------------------------------------------------------
(* The state machine *)

Game == [balls |-> balls, inv |-> inventory, idc |-> idCounter, destroyed |-> destroyed]

Call(name, ret, pos, radius, vel, dt) ==
    [name |-> name, ret |-> ret, pos |-> pos, radius |-> radius, vel |-> vel, dt |-> dt]

\* GameLogic.__init__
Init ==
    /\ \E w \in Widths, h \in Heights, z \in Zones, sh \in StripHeights,
          ss \in SlotSizes, pd \in Paddings, rf \in BOOLEAN :
          \* without a strip the padding is never read: one padding is enough
          /\ sh <= 0 => pd = 0
          /\ cfg = [width |-> w, height |-> h, zone |-> z,
                    strip |-> Max2(0, sh), slot |-> Max2(One, ss),
                    padding |-> Max2(0, pd), refill |-> rf]
    /\ balls = <<>>
    /\ inventory = <<>>
    /\ idCounter = 0
    /\ destroyed = {}
    /\ captureOrder = <<>>
    /\ capturedAs = <<>>
    /\ view = <<>>
    /\ calls = 0
    /\ op = Call("init", None, Vec2Zero, 0, NoVel, 0)

\* GameLogic.spawn_ball(position, velocity, radius, color)
SpawnBall ==
    /\ calls < MaxCalls
    /\ idCounter < MaxId
    /\ \E spec \in SpawnSpecs :
          LET after == spawn_ball(Game, spec.pos, spec.vel, spec.radius, spec.color)
          IN /\ balls' = after.balls
             /\ idCounter' = after.idc
             /\ op' = Call("spawn_ball", idCounter, spec.pos, spec.radius, spec.vel, 0)
    /\ calls' = calls + 1
    /\ UNCHANGED <<cfg, inventory, destroyed, captureOrder, capturedAs, view>>

\* GameLogic.update(dt)
Update ==
    /\ calls < MaxCalls
    /\ \E dt \in Dts :
          LET n == Removals(cfg, balls, dt)
          IN /\ cfg.refill => idCounter + n <= MaxId
             /\ \E gen \in [idCounter..(idCounter + n - 1) -> RefillSpecs] :
                   LET after == update(cfg, Game, dt, gen)
                   IN /\ balls' = after.balls
                      /\ inventory' = after.inv
                      /\ idCounter' = after.idc
                      /\ destroyed' = after.destroyed
             /\ op' = Call("update", None, Vec2Zero, 0, NoVel, dt)
    /\ calls' = calls + 1
    /\ UNCHANGED <<cfg, captureOrder, capturedAs, view>>

\* GameLogic.suck_ball(pointer, influence_radius)
SuckBall ==
    /\ calls < MaxCalls
    /\ \E pointer \in Pointers, influence_radius \in InfluenceRadii :
          LET at == _find_ball(balls, pointer, influence_radius)
          IN IF at = 0
             THEN /\ op' = Call("suck_ball", None, pointer, influence_radius, NoVel, 0)
                  /\ UNCHANGED <<balls, inventory, idCounter, captureOrder, capturedAs>>
             ELSE LET target == [balls[at] EXCEPT !.sv = balls[at].vel]
                      taken == [Game EXCEPT !.balls = ListRemove(balls, target.id)]
                  IN /\ cfg.refill => idCounter < MaxId
                     /\ inventory' = _refresh_inventory_layout(cfg, Append(inventory, target))
                     /\ \E gen \in [{idCounter} -> RefillSpecs] :
                           LET after == _spawn_replacement(cfg, taken, gen)
                           IN /\ balls' = after.balls
                              /\ idCounter' = after.idc
                     /\ captureOrder' = Append(captureOrder, target.id)
                     /\ capturedAs' = Append(capturedAs,
                                             [id |-> target.id, radius |-> target.radius,
                                              color |-> target.color,
                                              vel |-> balls[at].vel])
                     /\ op' = Call("suck_ball", target.id, pointer, influence_radius, NoVel, 0)
    /\ calls' = calls + 1
    /\ UNCHANGED <<cfg, destroyed, view>>

\* GameLogic.spit_ball(position, velocity)
SpitBall ==
    /\ calls < MaxCalls
    /\ \E position \in SpitPositions, velocity \in SpitVelocities :
          IF Len(inventory) = 0
          THEN /\ op' = Call("spit_ball", None, position, 0, velocity, 0)
               /\ UNCHANGED <<balls, inventory, captureOrder, capturedAs>>
          ELSE LET popped == pop_last(inventory)
                   ball == popped.ball
               IN \E random_velocity \in RandomVelocities :
                     LET chosen_velocity == ChosenVelocity(velocity, ball, random_velocity)
                     IN /\ inventory' = _refresh_inventory_layout(cfg, popped.rest)
                        /\ balls' = Append(balls, [ball EXCEPT !.pos = position,
                                                               !.vel = chosen_velocity,
                                                               !.sv = chosen_velocity])
                        /\ captureOrder' = SelectSeq(captureOrder, LAMBDA i : i # ball.id)
                        /\ capturedAs' = SelectSeq(capturedAs, LAMBDA e : e.id # ball.id)
                        /\ op' = Call("spit_ball", ball.id, position, 0, velocity, 0)
    /\ calls' = calls + 1
    /\ UNCHANGED <<cfg, idCounter, destroyed, view>>

Next == SpawnBall \/ Update \/ SuckBall \/ SpitBall

Spec == Init /\ [][Next]_vars

-----------------------------------------------------------------------------
(* A caller that keeps the tuple returned by balls() and writes to the Ball *)
(* objects it holds.  The tuple holds references: view lists the ids.       *)

\* GameLogic.balls: tuple(self._balls)
BallsView ==
    /\ calls < MaxCalls
    /\ view' = [i \in 1..Len(balls) |-> balls[i].id]
    /\ op' = Call("balls", Len(balls), Vec2Zero, 0, NoVel, 0)
    /\ calls' = calls + 1
    /\ UNCHANGED <<cfg, balls, inventory, idCounter, destroyed, captureOrder, capturedAs>>

ViewColors == {Red, Blue}

\* ball.color = color on the one Ball object with this id, wherever it is held
SetColor(s, id, color) ==
    [i \in 1..Len(s) |-> IF s[i].id = id THEN [s[i] EXCEPT !.color = color] ELSE s[i]]

\* the caller assigns to an attribute of a ball of the tuple: Ball is a
\* dataclass that is not frozen, and the tuple holds the live objects
ViewSetColor ==
    /\ calls < MaxCalls
    /\ \E k \in 1..Len(view), color \in ViewColors :
          /\ balls' = SetColor(balls, view[k], color)
          /\ inventory' = SetColor(inventory, view[k], color)
          /\ capturedAs' = capturedAs
          /\ op' = Call("view_write", view[k], Vec2Zero, 0, NoVel, 0)
    /\ calls' = calls + 1
    /\ UNCHANGED <<cfg, idCounter, destroyed, captureOrder, view>>

NextView == Next \/ BallsView \/ ViewSetColor

SpecView == Init /\ [][NextView]_vars

-----------------------------------------------------------------------------
(* Vocabulary of the properties *)

Count(s, id) == Cardinality({i \in 1..Len(s) : s[i].id = id})

Alive == Ids(balls) \cup Ids(inventory)

Stepped(name) == op'.name = name
Returned(name) == op.name = name /\ op.ret # None

-----------------------------------------------------------------------------
(* C1: no ball id is in both the active set and the inventory, and every   *)
(* ball ever spawned and not destroyed by the delete zone is held exactly  *)
(* once, by exactly one of the two collections.                            *)
C1_ExclusiveOwnership ==
    /\ Ids(balls) \cap Ids(inventory) = {}
    /\ \A id \in 0..(idCounter - 1) :
          Count(balls, id) + Count(inventory, id) = (IF id \in destroyed THEN 0 ELSE 1)

\* a release has just put a ball back while another stays stored
C1_Witness ==
    /\ Returned("spit_ball")
    /\ Len(inventory) >= 1
    /\ Len(balls) >= 1

(* C2: with refill_on_remove disabled, every suck_ball and spit_ball call, *)
(* successful or not, leaves active-count + inventory-count unchanged.     *)
C2_Conservation ==
    [][(~cfg.refill /\ (Stepped("suck_ball") \/ Stepped("spit_ball")))
          => Len(balls') + Len(inventory') = Len(balls) + Len(inventory)]_vars

\* a capture has succeeded with refill disabled
C2_Witness == ~cfg.refill /\ Returned("suck_ball") /\ Len(balls) >= 1

(* C3: every id that enters the game in a step is greater than every id    *)
(* assigned before it (alive or destroyed), and no two balls share an id.  *)
C3_NewIds == Alive' \ Alive

C3_FreshIds ==
    /\ [](\A id \in Alive : Count(balls, id) + Count(inventory, id) = 1)
    /\ [][\A id \in C3_NewIds : \A old \in Alive \cup destroyed : id > old]_vars

\* a refill has been spawned after the delete zone destroyed a ball
C3_Witness == op.name = "update" /\ destroyed # {} /\ cfg.refill /\ Len(balls) >= 2

(* C4: spit_ball returns the most recently captured ball still stored, and *)
(* returns None only when nothing is stored.                               *)
C4_StackOrder ==
    [][Stepped("spit_ball")
          => op'.ret = (IF captureOrder = <<>> THEN None
                        ELSE captureOrder[Len(captureOrder)])]_vars

\* a release from an inventory that held two balls
C4_Witness == Returned("spit_ball") /\ Len(captureOrder) >= 1

(* C5 as stated: in every configuration each stored ball has velocity     *)
(* (0, 0) and sits at the slot position of its index.                      *)
LaidOut ==
    \A i \in 1..Len(inventory) :
        /\ inventory[i].vel = Vec2Zero
        /\ inventory[i].pos = _inventory_slot_position(cfg, i - 1)

C5_Original == LaidOut

(* C5: when inventory_strip_height is positive, each stored ball has       *)
(* velocity (0, 0) and sits at the slot position of its index.             *)
C5_ParkedInSlots == cfg.strip > 0 => LaidOut

\* a second ball has just been captured into a strip
C5_Witness == cfg.strip > 0 /\ Returned("suck_ball") /\ Len(inventory) >= 2

(* Vocabulary of C6 *)
AtRest(ball) == ball.vel[1] = 0 /\ ball.vel[2] = 0

WithinZoneBounds(position) ==
    /\ cfg.zone.min_x <= position[1] /\ position[1] <= cfg.zone.max_x
    /\ cfg.zone.min_y <= position[2] /\ position[2] <= cfg.zone.max_y

PlayHeight == IF cfg.height - cfg.strip >= One THEN cfg.height - cfg.strip ELSE One

InsidePlayArea(position) ==
    /\ 0 <= position[1] /\ position[1] < cfg.width
    /\ 0 <= position[2] /\ position[2] < PlayHeight

RemovedByZone(ball) == ball.id \notin Ids(balls') /\ ball.id \in destroyed'

(* C6 as stated: one update removes every active ball at rest at a         *)
(* position within the zone's inclusive bounds; with refill the active     *)
(* count is the same after the call.                                       *)
C6_Original ==
    [][(Stepped("update") /\ cfg.zone # NoZone)
          => /\ \A i \in 1..Len(balls) :
                   (AtRest(balls[i]) /\ WithinZoneBounds(balls[i].pos))
                      => RemovedByZone(balls[i])
             /\ cfg.refill => Len(balls') = Len(balls)]_vars

(* C6: one update removes every active ball at rest at a position that is  *)
(* within the zone's inclusive bounds and inside the play area             *)
(* (0 <= x < width, 0 <= y < play-area height); with refill the active     *)
(* count is the same after the call.                                       *)
C6_ZoneRemoval ==
    [][(Stepped("update") /\ cfg.zone # NoZone)
          => /\ \A i \in 1..Len(balls) :
                   (/\ AtRest(balls[i])
                    /\ WithinZoneBounds(balls[i].pos)
                    /\ InsidePlayArea(balls[i].pos))
                      => RemovedByZone(balls[i])
             /\ cfg.refill => Len(balls') = Len(balls)]_vars

\* the first update, with dt = 1, destroyed the only ball and refilled: of
\* the balls spawn_ball can create only the one at rest on the zone's bounds
\* is inside the zone after that update
C6_Witness ==
    /\ op.name = "update" /\ op.dt = 1 /\ calls = 2
    /\ cfg.refill /\ destroyed = {0} /\ Len(balls) = 1

(* C7: with refill_on_remove enabled, an update or suck_ball call spawns   *)
(* exactly one ball per ball it removes from the active set, so the active *)
(* count does not decrease.                                                *)
C7_RefillCompensates ==
    [][(cfg.refill /\ (Stepped("update") \/ Stepped("suck_ball")))
          => /\ idCounter' - idCounter = Cardinality(Ids(balls) \ Ids(balls'))
             /\ Len(balls') >= Len(balls)]_vars

\* a capture has succeeded with refill enabled
C7_Witness == cfg.refill /\ Returned("suck_ball") /\ Len(inventory) >= 1

(* Vocabulary of C8 *)
WrapTurns == -4..4

Congruent(a, b, m) == \E k \in WrapTurns : a = b + k * m

(* C8: a ball active before and after update(dt) ends at the position      *)
(* congruent to (x + vx*dt, y + vy*dt) modulo (width, play-area height)    *)
(* with 0 <= x < width and 0 <= y < play-area height.                      *)
C8_WrapAround ==
    [][Stepped("update")
          => \A i \in 1..Len(balls) :
                LET ball == balls[i]
                    j == IndexOf(balls', ball.id)
                IN j # 0
                     => /\ InsidePlayArea(balls'[j].pos)
                        /\ Congruent(balls'[j].pos[1],
                                     ball.pos[1] + ball.vel[1] * op'.dt, cfg.width)
                        /\ Congruent(balls'[j].pos[2],
                                     ball.pos[2] + ball.vel[2] * op'.dt, PlayHeight)]_vars

\* the ball spawned at (7, 2) with velocity (10, -3) has wrapped on both axes
C8_Witness ==
    /\ op.name = "update" /\ op.dt = 1
    /\ \E i \in 1..Len(balls) :
          /\ balls[i].vel = Vec2(10, -3)
          /\ balls[i].pos = Vec2(1, PlayHeight - 1)

(* Vocabulary of C9 *)
Touch(a, b) ==
    LengthSq(a.pos, b.pos) <= (a.radius + b.radius) * (a.radius + b.radius)

TouchingPairs(bs) ==
    {pr \in (1..Len(bs)) \X (1..Len(bs)) : pr[1] < pr[2] /\ Touch(bs[pr[1]], bs[pr[2]])}

ColorBefore(id) == balls[IndexOf(balls, id)].color

(* C9: when exactly one pair of active balls touches at the end of an      *)
(* update, both have the same colour; if both were active before the call  *)
(* it is the blend of their colours before the call, and for red and blue  *)
(* it is neither red, nor blue, nor (0.5, 0, 0.5).                         *)
C9_ContactBlend ==
    [][Stepped("update")
          => \A pr \in TouchingPairs(balls') :
                (TouchingPairs(balls') = {pr})
                   => LET a == balls'[pr[1]]
                          b == balls'[pr[2]]
                      IN /\ a.color = b.color
                         /\ ({a.id, b.id} \subseteq Ids(balls))
                              => /\ a.color = _mix_colors(ColorBefore(a.id), ColorBefore(b.id))
                                 /\ ({ColorBefore(a.id), ColorBefore(b.id)} = {Red, Blue})
                                      => a.color \notin {Red, Blue, NaiveAverage}]_vars

\* a red and a blue ball touched in an update and both came out magenta
C9_Witness ==
    /\ op.name = "update"
    /\ Len(balls) = 2
    /\ Touch(balls[1], balls[2])
    /\ balls[1].color = <<CU, 0, CU>>
    /\ balls[2].color = <<CU, 0, CU>>

(* C10: suck_ball with no active ball within the influence radius and      *)
(* spit_ball with an empty inventory return None and change neither the    *)
(* active set, nor the inventory, nor any ball, nor the id counter.        *)
NothingInRange(pointer, influence_radius) ==
    \A i \in 1..Len(balls) : ~WithinInfluence(balls[i], pointer, influence_radius)

C10_NoOp ==
    [][(\/ Stepped("suck_ball") /\ NothingInRange(op'.pos, op'.radius)
        \/ Stepped("spit_ball") /\ inventory = <<>>)
          => /\ op'.ret = None
             /\ UNCHANGED <<balls, inventory, idCounter, destroyed>>]_vars

\* a capture found nothing in range although balls are active and refill is on
C10_Witness ==
    /\ op.name = "suck_ball" /\ op.ret = None
    /\ Len(balls) >= 1 /\ cfg.refill

(* Vocabulary of C11: the grid of slots of the capture strip *)
SafeWidth == IF cfg.width >= One THEN cfg.width ELSE One

UsableWidth ==
    LET gutters == IF 2 * cfg.padding <= SafeWidth THEN 2 * cfg.padding ELSE SafeWidth
    IN IF SafeWidth - gutters >= One THEN SafeWidth - gutters ELSE One

SlotColumns == IF UsableWidth \div cfg.slot >= 1 THEN UsableWidth \div cfg.slot ELSE 1

SlotWidth == UsableWidth \div SlotColumns

SlotHeight ==
    LET band == IF cfg.strip >= One THEN cfg.strip ELSE One
    IN IF cfg.slot <= band THEN cfg.slot ELSE band

\* number of slots whose row lies entirely inside the strip
SlotCapacity == SlotColumns * (cfg.strip \div SlotHeight)

SlotsOverlap(p, q) ==
    /\ Abs(p[1] - q[1]) < SlotWidth
    /\ Abs(p[2] - q[2]) < SlotHeight

AtOwnSlot(i) == inventory[i].pos = _inventory_slot_position(cfg, i - 1)

AfterTransfer == Returned("suck_ball") \/ Returned("spit_ball")

C12_Original ==
    [][(Stepped("update") /\ op'.dt <= 0)
          => \A i \in 1..Len(balls) :
                LET j == IndexOf(balls', balls[i].id)
                IN j # 0 => balls'[j].pos = balls[i].pos]_vars

(* Vocabulary of C13: the life cycle of one ball id *)
StateOf(id, active, stored, counter) ==
    IF id \in Ids(active) /\ id \in Ids(stored) THEN "both"
    ELSE IF id \in Ids(active) THEN "Active"
    ELSE IF id \in Ids(stored) THEN "Stored"
    ELSE IF id < counter THEN "destroyed"
    ELSE "unborn"

Before(id) == StateOf(id, balls, inventory, idCounter)
After(id) == StateOf(id, balls', inventory', idCounter')

(* C13: in every step a ball keeps its state or makes one of these moves:   *)
(* creation as Active by a spawn, Active to Stored as the ball a suck_ball  *)
(* returns, Stored to Active as the ball a spit_ball returns, Active to     *)
(* destroyed by the delete zone in an update; nothing leaves destroyed.     *)
C13_LifeCycle ==
    [][\A id \in 0..idCounter' :
          \/ After(id) = Before(id) /\ After(id) # "both"
          \/ Before(id) = "unborn" /\ After(id) = "Active"
          \/ /\ Before(id) = "Active" /\ After(id) = "Stored"
             /\ Stepped("suck_ball") /\ op'.ret = id
          \/ /\ Before(id) = "Stored" /\ After(id) = "Active"
             /\ Stepped("spit_ball") /\ op'.ret = id
          \/ /\ Before(id) = "Active" /\ After(id) = "destroyed"
             /\ Stepped("update") /\ id \in destroyed']_vars

\* a ball has been released after the delete zone destroyed another one
C13_Witness ==
    /\ Returned("spit_ball")
    /\ destroyed # {}
    /\ op.ret \notin destroyed

(* Vocabulary of C14: the lists the layout pass is run on *)
Layout(stored) == _refresh_inventory_layout(cfg, stored)

\* the inventory as it is, after adding any active ball, after popping the last
LayoutInputs ==
    {inventory}
        \cup {Append(inventory, balls[i]) : i \in 1..Len(balls)}
        \cup (IF Len(inventory) = 0 THEN {} ELSE {pop_last(inventory).rest})

(* C14: running the layout pass a second time on the list it has just laid  *)
(* out changes nothing: every stored ball keeps the slot position and the   *)
(* zero velocity the first pass gave it.                                    *)
C14_Idempotent ==
    \A stored \in LayoutInputs :
        LET once == Layout(stored)
            twice == Layout(once)
        IN /\ Len(twice) = Len(once)
           /\ \A i \in 1..Len(once) :
                  /\ twice[i].pos = once[i].pos
                  /\ twice[i].vel = once[i].vel
                  /\ twice[i] = once[i]

\* a capture has laid out two balls in a strip while a moving ball is active
C14_Witness ==
    /\ Returned("suck_ball")
    /\ cfg.strip > 0
    /\ Len(inventory) >= 2
    /\ \E i \in 1..Len(balls) :
          /\ balls[i].vel # Vec2Zero
          /\ Layout(Append(inventory, balls[i])) # Append(inventory, balls[i])

(* Vocabulary of C15: what a held tuple shows of the ball with this id *)
Shown(id, active, stored) ==
    {active[i] : i \in {j \in 1..Len(active) : active[j].id = id}}
        \cup {stored[i] : i \in {j \in 1..Len(stored) : stored[j].id = id}}

(* C15: a write through the tuple returned by balls() changes neither the   *)
(* active set nor any attribute of a ball the simulation holds, and a later *)
(* operation of the simulation does not change what a ball of an already    *)
(* returned tuple shows, as long as the simulation holds that ball.         *)
C15_Original ==
    [][/\ Stepped("view_write") => (balls' = balls /\ inventory' = inventory)
       /\ (~Stepped("view_write") /\ ~Stepped("balls")) =>
             \A k \in 1..Len(view) :
                 \/ Shown(view[k], balls', inventory') = {}
                 \/ Shown(view[k], balls', inventory')
                      = Shown(view[k], balls, inventory)]_vars

(* C16: the ball a successful suck_ball(pointer, r) returns was active and  *)
(* within r of the pointer by its surface, no ball within r was strictly    *)
(* closer by its surface, every earlier ball of the active order within r   *)
(* was strictly farther, and it is the only ball that left the active set   *)
(* and the only one the inventory gained.                                   *)
C16_NearestSurface ==
    [][(Stepped("suck_ball") /\ op'.ret # None) =>
          LET k == IndexOf(balls, op'.ret)
              InRange(j) == WithinInfluence(balls[j], op'.pos, op'.radius)
          IN /\ k # 0
             /\ InRange(k)
             /\ \A j \in 1..Len(balls) :
                    InRange(j) => ~CloserThan(balls[j], balls[k], op'.pos)
             /\ \A j \in 1..(k - 1) :
                    InRange(j) => CloserThan(balls[k], balls[j], op'.pos)
             /\ {id \in Ids(balls) : Count(balls', id) = 0} = {op'.ret}
             /\ Len(inventory') = Len(inventory) + 1
             /\ inventory'[Len(inventory')].id = op'.ret
             /\ \A i \in 1..Len(inventory) : inventory'[i].id = inventory[i].id]_vars

\* a capture chose between two balls at the same surface distance: the one it
\* left behind is later in the active order (no strip, so the stored ball
\* still shows where it was)
C16_Witness ==
    /\ Returned("suck_ball")
    /\ cfg.strip = 0
    /\ Len(inventory) > 0
    /\ LET taken == inventory[Len(inventory)]
       IN /\ taken.id = op.ret
          /\ \E i \in 1..Len(balls) :
                /\ balls[i].id > taken.id
                /\ WithinInfluence(balls[i], op.pos, op.radius)
                /\ ~CloserThan(balls[i], taken, op.pos)
                /\ ~CloserThan(taken, balls[i], op.pos)

(* Vocabulary of C17 and C19: what was recorded when this ball was captured *)
CapturedEntry(id) == CHOOSE e \in {capturedAs[i] : i \in 1..Len(capturedAs)} : e.id = id

(* C17: the ball a successful spit_ball(position, velocity) returns is the  *)
(* last of the active set, at the given position, with its velocity and its *)
(* stored velocity both equal to: the explicit velocity if one was given,   *)
(* else the velocity the ball had when it was captured if that is not zero, *)
(* else one of the non-zero values the random generator produces.           *)
C17_VelocityResolution ==
    [][(Stepped("spit_ball") /\ op'.ret # None) =>
          LET out == balls'[Len(balls')]
              at_capture == CapturedEntry(op'.ret).vel
          IN /\ Len(balls') = Len(balls) + 1
             /\ out.id = op'.ret
             /\ out.pos = op'.pos
             /\ out.sv = out.vel
             /\ IF op'.vel # NoVel THEN out.vel = op'.vel
                ELSE IF at_capture # Vec2Zero THEN out.vel = at_capture
                ELSE out.vel \in RandomVelocities /\ out.vel # Vec2Zero]_vars

\* a ball parked at rest in the strip was released without an explicit
\* velocity and flies with the velocity it was captured with
C17_Witness ==
    /\ Returned("spit_ball")
    /\ op.vel = NoVel
    /\ cfg.strip > 0
    /\ Len(balls) > 0
    /\ LET out == balls[Len(balls)]
       IN /\ out.id = op.ret
          /\ out.vel # Vec2Zero
          /\ out.vel \notin RandomVelocities

(* C18: in update(dt) every ball active at the start is moved once and     *)
(* tested against the zone once: it is gone exactly if its position moved   *)
(* once is in the zone, and otherwise it is at that position with the       *)
(* velocity it had; every ball the call adds sits where the refill          *)
(* generator put it, with the generated velocity, not moved.                *)
C18_SnapshotPass ==
    [][Stepped("update") =>
          /\ \A i \in 1..Len(balls) :
                LET once == _move_ball(cfg, balls[i], op'.dt)
                    j == IndexOf(balls', balls[i].id)
                IN IF InDeleteZone(cfg, once.pos)
                   THEN j = 0 /\ balls[i].id \in destroyed'
                   ELSE /\ j # 0
                        /\ balls'[j].pos = once.pos
                        /\ balls'[j].vel = balls[i].vel
                        /\ balls'[j].sv = balls[i].vel
                        /\ Count(balls', balls[i].id) = 1
          /\ \A j \in 1..Len(balls') :
                balls'[j].id >= idCounter =>
                    \E spawn_spec \in RefillSpecs :
                        /\ balls'[j].pos = spawn_spec.pos
                        /\ balls'[j].vel = spawn_spec.vel
                        /\ balls'[j].radius = spawn_spec.radius]_vars

\* an update with dt # 0 removed the only ball destroyed so far, moved a
\* younger moving ball that came after it, and left the replacement (the
\* newest ball, itself moving) where the generator put it
C18_Witness ==
    /\ op.name = "update"
    /\ op.dt # 0
    /\ cfg.refill
    /\ Cardinality(destroyed) = 1
    /\ \E j \in 1..Len(balls) :
          /\ balls[j].id = idCounter - 1
          /\ balls[j].vel # Vec2Zero
          /\ \E spawn_spec \in RefillSpecs : balls[j].pos = spawn_spec.pos
    /\ \E d \in destroyed, i \in 1..Len(balls) :
          /\ d < balls[i].id
          /\ balls[i].id < idCounter - 1
          /\ balls[i].vel # Vec2Zero

(* C19: the ball a successful spit_ball returns carries the id, the radius *)
(* and the colour recorded when suck_ball captured it, and it is one ball:  *)
(* once in the active set and no longer in the inventory.                   *)
C19_SameBall ==
    [][(Stepped("spit_ball") /\ op'.ret # None) =>
          LET out == balls'[Len(balls')]
              captured == CapturedEntry(op'.ret)
          IN /\ out.id = captured.id
             /\ out.radius = captured.radius
             /\ out.color = captured.color
             /\ Count(balls', op'.ret) = 1
             /\ Count(inventory', op'.ret) = 0]_vars

\* a ball smaller than its slot was released from a strip in which it was
\* laid out next to a ball captured before it
C19_Witness ==
    /\ Returned("spit_ball")
    /\ cfg.strip > 0
    /\ Len(inventory) >= 1
    /\ Len(balls) > 0
    /\ balls[Len(balls)].id = op.ret
    /\ 2 * balls[Len(balls)].radius < cfg.slot

(* C20: an update leaves the inventory as it was: the same stored balls in *)
(* the same order, each with the position, velocity, stored velocity,       *)
(* radius and colour it had.                                                *)
C20_InventoryUntouched ==
    [][Stepped("update") =>
          /\ Len(inventory') = Len(inventory)
          /\ \A i \in 1..Len(inventory) :
                /\ inventory'[i].id = inventory[i].id
                /\ inventory'[i].pos = inventory[i].pos
                /\ inventory'[i].vel = inventory[i].vel
                /\ inventory'[i].color = inventory[i].color
                /\ inventory'[i] = inventory[i]]_vars

\* an update ran while a stored ball lay inside the delete zone, within
\* touching distance of a ball that is still active
C20_Witness ==
    /\ op.name = "update"
    /\ \E i \in 1..Len(inventory), j \in 1..Len(balls) :
          /\ InDeleteZone(cfg, inventory[i].pos)
          /\ _are_touching(inventory[i], balls[j])

=============================================================================
